---- MODULE Spec2Model ----
(***************************************************************************)
(* Model of klint's infallible_allocation lint pass                        *)
(* (src/src/infallible_allocation.rs, InfallibleAllocation::check_crate).  *)
(*                                                                         *)
(* check_crate runs five stages in sequence: it builds the forward and     *)
(* backward dependency graphs from the collector's access map, classifies  *)
(* the accessees by name, queues the leaf items of the alloc crate,        *)
(* propagates the infallible property over the backward graph, and reports *)
(* the offending calls.  pc records the stage the function is in.          *)
(***************************************************************************)
EXTENDS Integers, Sequences, FiniteSets, Bags, TLC

VARIABLES
  access,      \* the arguments of the one closure call SpecClosure follows
  forward,     \* accessor -> list of Spanned accessees (line 32)
  backward,    \* accessee -> list of Spanned accessors (line 33)
  visited,     \* line 74
  infallible,  \* line 103
  work_queue,  \* line 104
  diags,       \* bag of the diagnostics emitted at line 154
  todo,        \* the keys the running for loop has still to yield
  pc           \* the stage check_crate is in

vars == <<access, forward, backward, visited, infallible, work_queue, diags, todo, pc>>

(***************************************************************************)
(* Bounds of the model.                                                    *)
(***************************************************************************)
\* longest accessee list the collector hands to one call of the closure
MaxAccessees == 2
\* size of the graph: accessors recorded plus edges recorded
MaxItems == 5

(***************************************************************************)
(* The instances of the analysed program.  An Instance is identified by    *)
(* its name here; tcx answers the queries the pass makes about it.         *)
(* A def path is the sequence of the pieces of the printed path.           *)
(***************************************************************************)
LOCAL_CRATE == "kernel"

tcx ==
  [ main      |-> [krate |-> "kernel", path |-> <<"main">>,
                   generic |-> TRUE,  item |-> "Fn"],
    TABLE     |-> [krate |-> "kernel", path |-> <<"TABLE">>,
                   generic |-> FALSE, item |-> "Static"],
    marker    |-> [krate |-> "util",   path |-> <<"util", "assume_fallible", "<closure>">>,
                   generic |-> TRUE, item |-> "Fn"],
    helper    |-> [krate |-> "core",   path |-> <<"core", "ops", "FnOnce", "call_once">>,
                   generic |-> TRUE,  item |-> "Fn"],
    leaf      |-> [krate |-> "alloc",  path |-> <<"alloc", "string", "String", "reserve">>,
                   generic |-> FALSE, item |-> "Fn"],
    raw_alloc |-> [krate |-> "alloc",  path |-> <<"alloc", "alloc", "__rust_alloc">>,
                   generic |-> FALSE, item |-> "Fn"] ]

Instances == DOMAIN tcx

def_path_str(i) == tcx[i].path

is_local(i) == tcx[i].krate = LOCAL_CRATE

original_crate_name(i) == tcx[i].krate

\* The definition span of an instance, and the span of the k-th accessee
\* the collector recorded for an accessor.
def_span(i) == <<i, 0>>
call_span(i, k) == <<i, k>>
DUMMY_SP == <<"", 0>>
is_dummy(sp) == sp = DUMMY_SP

(***************************************************************************)
(* Mono items as the collector produces them.                              *)
(***************************************************************************)
GlobalAsm == [kind |-> "GlobalAsm", id |-> ""]

MonoItemOf(i) == [kind |-> tcx[i].item, id |-> i]

MonoItems == {MonoItemOf(i) : i \in Instances} \cup {GlobalAsm}

\* Accessee lists of exactly n entries for the accessor acc.  The accessees
\* of a static are found by const evaluation and carry the dummy span, the
\* k-th accessee of a function carries its call-site span; with anySpan
\* every accessee may carry either.
RECURSIVE AccesseeLists(_, _, _)
AccesseeLists(acc, n, anySpan) ==
  IF n = 0 THEN {<<>>}
  ELSE LET spans == IF anySpan THEN {call_span(acc.id, n), DUMMY_SP}
                    ELSE IF acc.kind = "Static" THEN {DUMMY_SP}
                    ELSE {call_span(acc.id, n)}
       IN { Append(s, [node |-> m, span |-> sp]) :
              s \in AccesseeLists(acc, n - 1, anySpan), m \in MonoItems, sp \in spans }

(***************************************************************************)
(* Graph building (lines 31-71).  forward and backward are maps from an    *)
(* Instance to the list of its Spanned edges; a map is a function whose    *)
(* domain is its key set.                                                  *)
(***************************************************************************)
EmptyMap == [i \in {} |-> <<>>]

\* Option::None of the memoised definition span, and the outcome of the
\* match on a mono item that is neither a function nor a static
None == <<"None", 0>>
NoInstance == ""

Spanned(node, span) == [node |-> node, span |-> span]

\* map.get(&k).unwrap_or(&Vec::new())
get_or_empty(map, k) == IF k \in DOMAIN map THEN map[k] ELSE <<>>

\* map.entry(k).or_insert_with(Vec::new) / or_default(): the map with k present
entry_or_default(map, k) ==
  IF k \in DOMAIN map THEN map
  ELSE [i \in DOMAIN map \cup {k} |-> IF i = k THEN <<>> ELSE map[i]]

\* match on the mono item (lines 36-40 and 48-52): the instance, or
\* NoInstance for an item that is neither a function nor a static
instance_of(m) ==
  CASE m.kind = "Static" -> m.id
    [] m.kind = "Fn"     -> m.id
    [] OTHER             -> NoInstance

\* def_span.get_or_insert_with(..): the memo after the accessee was looked at
memo_after(accessor, accessee, memo) ==
  IF is_dummy(accessee.span) /\ memo = None THEN def_span(accessor) ELSE memo

\* lines 56-60: the span recorded for the edge
edge_span(accessor, accessee, memo) ==
  IF is_dummy(accessee.span)
    THEN memo_after(accessor, accessee, memo)
    ELSE accessee.span

\* lines 62-65
push_forward(fwd, accessor, accessee_node, span) ==
  [fwd EXCEPT ![accessor] = Append(@, Spanned(accessee_node, span))]

\* push_backward with the entry replaced instead of extended
push_backward_insert(bwd, accessor, accessee_node, span) ==
  [i \in DOMAIN bwd \cup {accessee_node} |->
     IF i = accessee_node THEN <<Spanned(accessor, span)>> ELSE bwd[i]]

\* lines 66-69
push_backward(bwd, accessor, accessee_node, span) ==
  [entry_or_default(bwd, accessee_node)
     EXCEPT ![accessee_node] = Append(@, Spanned(accessor, span))]

\* for_accessees with the offending accessee skipped and the loop continued
RECURSIVE for_accessees_continue(_, _, _, _, _)
for_accessees_continue(fwd, bwd, accessor, accessees, memo) ==
  IF accessees = <<>> THEN [forward |-> fwd, backward |-> bwd]
  ELSE LET accessee      == Head(accessees)
           accessee_node == instance_of(accessee.node)
           span          == edge_span(accessor, accessee, memo)
       IN IF accessee_node = NoInstance
            THEN for_accessees_continue(fwd, bwd, accessor, Tail(accessees), memo)
            ELSE for_accessees_continue(
                   push_forward(fwd, accessor, accessee_node, span),
                   push_backward(bwd, accessor, accessee_node, span),
                   accessor, Tail(accessees),
                   memo_after(accessor, accessee, memo))

\* the for loop of lines 47-70; an accessee that is no function and no
\* static returns from the closure
RECURSIVE for_accessees(_, _, _, _, _)
for_accessees(fwd, bwd, accessor, accessees, memo) ==
  IF accessees = <<>> THEN [forward |-> fwd, backward |-> bwd]
  ELSE LET accessee      == Head(accessees)
           accessee_node == instance_of(accessee.node)
           span          == edge_span(accessor, accessee, memo)
       IN IF accessee_node = NoInstance
            THEN [forward |-> fwd, backward |-> bwd]
            ELSE for_accessees(push_forward(fwd, accessor, accessee_node, span),
                               push_backward(bwd, accessor, accessee_node, span),
                               accessor, Tail(accessees),
                               memo_after(accessor, accessee, memo))

\* the closure handed to iter_accesses (lines 35-71)
access_closure(fwd, bwd, accessor_item, accessees) ==
  LET accessor == instance_of(accessor_item)
  IN IF accessor = NoInstance
       THEN [forward |-> fwd, backward |-> bwd]
       ELSE for_accessees(entry_or_default(fwd, accessor), bwd,
                          accessor, accessees, None)

\* number of edge occurrences stored in a map
RECURSIVE EdgeCount(_)
EdgeCount(map) ==
  IF DOMAIN map = {} THEN 0
  ELSE LET k == CHOOSE i \in DOMAIN map : TRUE
       IN Len(map[k]) + EdgeCount([i \in DOMAIN map \ {k} |-> map[i]])

GraphSize(fwd) == Cardinality(DOMAIN fwd) + EdgeCount(fwd)

\* the accessee lists the collector may hold for each accessor, by length
AccessMapEntries ==
  [accessor \in MonoItems, anySpan \in BOOLEAN, n \in 0..MaxAccessees |->
     AccesseeLists(accessor, n, anySpan)]

\* iter_accesses calls the closure once for every accessor of the access
\* map, in the map's order; an accessor is a key of the map, so it comes once.
\* The items handed over so far (accessors and accessees) stay within MaxItems.
iter_accesses(anySpan) ==
  /\ pc = "build"
  /\ \E accessor \in MonoItems, n \in 0..MaxAccessees :
       /\ instance_of(accessor) \notin DOMAIN forward
       /\ GraphSize(forward) + 1 + n <= MaxItems
       /\ \E accessees \in AccessMapEntries[accessor, anySpan, n] :
            LET r == access_closure(forward, backward, accessor, accessees)
            IN /\ forward' = r.forward
               /\ backward' = r.backward
  /\ UNCHANGED <<access, visited, infallible, work_queue, diags, todo, pc>>

\* no single closure call is followed
NoAccess == [accessor |-> GlobalAsm, accessees |-> <<>>, returned |-> TRUE]

\* One call of the closure on its own: access holds the accessor and the
\* accessees it is called with, and whether it has returned.
call_closure ==
  /\ pc = "build"
  /\ ~access.returned
  /\ LET r == access_closure(forward, backward, access.accessor, access.accessees)
     IN /\ forward' = r.forward
        /\ backward' = r.backward
  /\ access' = [access EXCEPT !.returned = TRUE]
  /\ UNCHANGED <<visited, infallible, work_queue, diags, todo, pc>>

Init ==
  /\ access = NoAccess
  /\ forward = EmptyMap
  /\ backward = EmptyMap
  /\ visited = {}
  /\ infallible = {}
  /\ work_queue = <<>>
  /\ diags = EmptyBag
  /\ todo = {}
  /\ pc = "build"

\* iter_accesses has returned; the first loop over backward.keys() starts
\* with an empty visited set (line 74)
end_build ==
  /\ pc = "build"
  /\ pc' = "classify"
  /\ todo' = DOMAIN backward
  /\ UNCHANGED <<access, forward, backward, visited, infallible, work_queue, diags>>

(***************************************************************************)
(* Finding the fallible functions (lines 73-101).                          *)
(***************************************************************************)
\* name.contains(..): the pattern is one of the pieces of the path
contains(name, pattern) == \E k \in 1..Len(name) : name[k] = pattern

\* FallibleNames with the module left out of the paths
FallibleNames_short ==
  { <<"alloc", "__rust_alloc">>,
    <<"alloc", "__rust_alloc_zeroed">>,
    <<"alloc", "__rust_realloc">>,
    <<"alloc", "__rust_dealloc">>,
    <<"alloc", "String", "try_reserve">>,
    <<"alloc", "String", "try_reserve_exact">> }

\* the names matched at lines 90-96
FallibleNames ==
  { <<"alloc", "alloc", "__rust_alloc">>,
    <<"alloc", "alloc", "__rust_alloc_zeroed">>,
    <<"alloc", "alloc", "__rust_realloc">>,
    <<"alloc", "alloc", "__rust_dealloc">>,
    <<"alloc", "string", "String", "try_reserve">>,
    <<"alloc", "string", "String", "try_reserve_exact">> }

\* the nodes of a list of Spanned edges
nodes_of(list) == {list[k].node : k \in 1..Len(list)}

\* classify_accessee with only the marked item itself approved
classify_accessee_self_only(fwd, vis, accessee) ==
  LET name == def_path_str(accessee)
  IN IF contains(name, "assume_fallible") \/ name \in FallibleNames
       THEN vis \cup {accessee}
       ELSE vis

\* classify_accessee without the arm of the fallible names
classify_accessee_marker_only(fwd, vis, accessee) ==
  IF contains(def_path_str(accessee), "assume_fallible")
    THEN vis \cup {accessee} \cup nodes_of(get_or_empty(fwd, accessee))
    ELSE vis

\* classify_accessee without the arm of the assume_fallible marker
classify_accessee_names_only(fwd, vis, accessee) ==
  IF def_path_str(accessee) \in FallibleNames THEN vis \cup {accessee} ELSE vis

\* the body of the loop of lines 76-101 for one key: the visited set after it
classify_accessee(fwd, vis, accessee) ==
  LET name == def_path_str(accessee)
  IN IF contains(name, "assume_fallible")
       THEN vis \cup {accessee} \cup nodes_of(get_or_empty(fwd, accessee))
       ELSE IF name \in FallibleNames
              THEN vis \cup {accessee}
              ELSE vis

\* one iteration of the loop; backward.keys() yields the keys in the hash
\* map's order, which is any order
classify ==
  /\ pc = "classify"
  /\ \E accessee \in todo :
       /\ visited' = classify_accessee(forward, visited, accessee)
       /\ todo' = todo \ {accessee}
  /\ UNCHANGED <<access, forward, backward, infallible, work_queue, diags, pc>>

end_classify ==
  /\ pc = "classify"
  /\ todo = {}
  /\ pc' = "seed"
  /\ todo' = DOMAIN backward
  /\ UNCHANGED <<access, forward, backward, visited, infallible, work_queue, diags>>

(***************************************************************************)
(* Queueing the leaf items of the alloc crate (lines 103-118).             *)
(***************************************************************************)
\* queue_accessee that tests for an empty list of edges instead of a key
queue_accessee_no_edges(fwd, queue, accessee) ==
  IF get_or_empty(fwd, accessee) # <<>>
    THEN queue
    ELSE IF original_crate_name(accessee) = "alloc"
           THEN Append(queue, accessee)
           ELSE queue

\* queue_accessee with the core crate as the originating crate
queue_accessee_core(fwd, queue, accessee) ==
  IF accessee \in DOMAIN fwd
    THEN queue
    ELSE IF original_crate_name(accessee) = "core"
           THEN Append(queue, accessee)
           ELSE queue

\* queue_accessee without the test of the originating crate
queue_accessee_any_crate(fwd, queue, accessee) ==
  IF accessee \in DOMAIN fwd THEN queue ELSE Append(queue, accessee)

\* the body of the loop of lines 105-118 for one key: the queue after it
queue_accessee(fwd, queue, accessee) ==
  IF accessee \in DOMAIN fwd
    THEN queue
    ELSE IF original_crate_name(accessee) = "alloc"
           THEN Append(queue, accessee)
           ELSE queue

seed ==
  /\ pc = "seed"
  /\ \E accessee \in todo :
       /\ work_queue' = queue_accessee(forward, work_queue, accessee)
       /\ todo' = todo \ {accessee}
  /\ UNCHANGED <<access, forward, backward, visited, infallible, diags, pc>>

end_seed ==
  /\ pc = "seed"
  /\ todo = {}
  /\ pc' = "propagate"
  /\ UNCHANGED <<access, forward, backward, visited, infallible, work_queue, diags, todo>>

(***************************************************************************)
(* Propagating the infallible property (lines 120-137).                    *)
(***************************************************************************)
\* top taking the first element of the queue
top_first(queue) == queue[1]

\* Vec::pop takes the last element
top(queue) == queue[Len(queue)]
popped(queue) == SubSeq(queue, 1, Len(queue) - 1)

\* lines 134-136: the accessors of work_item are pushed in stored order
push_accessors(bwd, queue, work_item) ==
  LET list == get_or_empty(bwd, work_item)
  IN queue \o [k \in 1..Len(list) |-> list[k].node]

\* expand without the stop at local items
expand_through_local(bwd, queue, work_item) ==
  push_accessors(bwd, queue, work_item)

\* the body of the while loop for the popped work_item: the queue after it
expand(bwd, queue, work_item) ==
  IF is_local(work_item)
    THEN queue
    ELSE push_accessors(bwd, queue, work_item)

\* propagate with the loop left at the first visited work item
propagate_break ==
  /\ pc = "propagate"
  /\ work_queue # <<>>
  /\ LET work_item == top(work_queue)
     IN IF work_item \in visited
          THEN /\ work_queue' = <<>>
               /\ UNCHANGED <<visited, infallible>>
          ELSE /\ infallible' = infallible \cup {work_item}
               /\ visited' = visited \cup {work_item}
               /\ work_queue' = expand(backward, popped(work_queue), work_item)
  /\ UNCHANGED <<access, forward, backward, diags, todo, pc>>

\* propagate without the test of visited and without the insertion into it
propagate_revisit ==
  /\ pc = "propagate"
  /\ work_queue # <<>>
  /\ LET work_item == top(work_queue)
     IN /\ infallible' = infallible \cup {work_item}
        /\ visited' = visited
        /\ work_queue' = expand(backward, popped(work_queue), work_item)
  /\ UNCHANGED <<access, forward, backward, diags, todo, pc>>

\* propagate that skips the tainted units only, whatever visited holds
propagate_skip_tainted ==
  /\ pc = "propagate"
  /\ work_queue # <<>>
  /\ LET work_item == top(work_queue)
     IN IF work_item \in infallible
          THEN /\ work_queue' = popped(work_queue)
               /\ UNCHANGED <<visited, infallible>>
          ELSE /\ infallible' = infallible \cup {work_item}
               /\ visited' = visited \cup {work_item}
               /\ work_queue' = expand(backward, popped(work_queue), work_item)
  /\ UNCHANGED <<access, forward, backward, diags, todo, pc>>

\* propagate with the taint set as its own marker: visited is not extended
propagate_unvisited ==
  /\ pc = "propagate"
  /\ work_queue # <<>>
  /\ LET work_item == top(work_queue)
     IN IF work_item \in visited \/ work_item \in infallible
          THEN /\ work_queue' = popped(work_queue)
               /\ UNCHANGED <<visited, infallible>>
          ELSE /\ infallible' = infallible \cup {work_item}
               /\ visited' = visited
               /\ work_queue' = expand(backward, popped(work_queue), work_item)
  /\ UNCHANGED <<access, forward, backward, diags, todo, pc>>

\* one iteration of the while loop
propagate ==
  /\ pc = "propagate"
  /\ work_queue # <<>>
  /\ LET work_item == top(work_queue)
     IN IF work_item \in visited
          THEN /\ work_queue' = popped(work_queue)
               /\ UNCHANGED <<visited, infallible>>
          ELSE /\ infallible' = infallible \cup {work_item}
               /\ visited' = visited \cup {work_item}
               /\ work_queue' = expand(backward, popped(work_queue), work_item)
  /\ UNCHANGED <<access, forward, backward, diags, todo, pc>>

\* work_queue.pop() returns None: the loop over forward.iter() starts
end_propagate ==
  /\ pc = "propagate"
  /\ work_queue = <<>>
  /\ pc' = "report"
  /\ todo' = DOMAIN forward
  /\ UNCHANGED <<access, forward, backward, visited, infallible, work_queue, diags>>

(***************************************************************************)
(* Reporting (lines 139-243).                                              *)
(***************************************************************************)
\* substs.non_erasable_generics().next().is_some()
is_generic(i) == tcx[i].generic

\* find_unvisited that finds the last edge to an unvisited unit
find_unvisited_last(list, vis, k) ==
  LET found == {i \in k..Len(list) : list[i].node \notin vis}
  IN IF found = {} THEN 0 ELSE CHOOSE i \in found : \A j \in found : j <= i

\* iter().find(|x| !visited.contains(&x.node)) from list[k] on: the index of
\* the first such edge, 0 for Option::None
RECURSIVE find_unvisited(_, _, _)
find_unvisited(list, vis, k) ==
  IF k > Len(list) THEN 0
  ELSE IF list[k].node \notin vis THEN k
  ELSE find_unvisited(list, vis, k + 1)

\* iter().find(|x| infallible.contains(&x.node) && !visited.contains(&x.node))
RECURSIVE find_infallible(_, _, _, _)
find_infallible(list, inf, vis, k) ==
  IF k > Len(list) THEN 0
  ELSE IF list[k].node \in inf /\ list[k].node \notin vis THEN k
  ELSE find_infallible(list, inf, vis, k + 1)

\* the outcome of a walk: the edges of its span notes in the order they
\* are attached, and the per-diagnostic visited set it leaves
Walk(notes, vis) == [notes |-> notes, visited |-> vis]

\* lines 180-202, the while loop from caller on: "which is called from"
RECURSIVE called_from(_, _, _)
called_from(bwd, caller, vis) ==
  IF ~is_generic(caller) THEN Walk(<<>>, vis)
  ELSE LET list == get_or_empty(bwd, caller)
           k == find_unvisited(list, vis, 1)
       IN IF k = 0 THEN Walk(<<>>, vis)
          ELSE LET rest == called_from(bwd, list[k].node, vis \cup {list[k].node})
               IN Walk(<<list[k]>> \o rest.notes, rest.visited)

\* lines 209-235, the loop from callee on: "calls into"
RECURSIVE calls_into(_, _, _, _)
calls_into(fwd, inf, callee, vis) ==
  LET list == get_or_empty(fwd, callee)
      k == find_infallible(list, inf, vis, 1)
  IN IF k = 0 THEN Walk(<<>>, vis)
     ELSE LET rest == calls_into(fwd, inf, list[k].node, vis \cup {list[k].node})
          IN Walk(<<list[k]>> \o rest.notes, rest.visited)

\* note_visited with the accessor only
note_visited_accessor(accessor, accessee) == {accessor}

\* lines 177-179: the visited set a diagnostic starts with
note_visited(accessor, accessee) == {accessor, accessee}

\* the diagnostic built at lines 154-239 for the edge item of accessor; the
\* closure reads forward, backward and infallible.  generic_note says whether
\* the message carries the clause on the caller's monomorphization.
lint(accessor, item) ==
  LET up   == called_from(backward, accessor, note_visited(accessor, item.node))
      down == calls_into(forward, infallible, item.node, up.visited)
  IN [accessor     |-> accessor,
      accessee     |-> item.node,
      span         |-> item.span,
      generic_note |-> is_generic(accessor),
      callers      |-> up.notes,
      callees      |-> down.notes]

\* is_reported without the test for a non-local accessee
is_reported_any(inf, item) == item.node \in inf

\* lines 150-153: is a diagnostic emitted for this accessee of a reported accessor
is_reported(inf, item) == ~is_local(item.node) /\ item.node \in inf

\* lint_accessees that looks at the first accessee only
lint_accessees_first(inf, accessor, list, k) ==
  IF k > Len(list) \/ k > 1 THEN EmptyBag
  ELSE IF is_reported(inf, list[k])
         THEN SetToBag({lint(accessor, list[k])})
         ELSE EmptyBag

\* the diagnostics of the accessees list[k..], one for every reported edge
RECURSIVE lint_accessees(_, _, _, _)
lint_accessees(inf, accessor, list, k) ==
  IF k > Len(list) THEN EmptyBag
  ELSE (IF is_reported(inf, list[k])
          THEN SetToBag({lint(accessor, list[k])})
          ELSE EmptyBag)
       (+) lint_accessees(inf, accessor, list, k + 1)

\* the body of the loop of lines 139-242 for one accessor
lint_accessor(fwd, inf, accessor) ==
  IF ~is_local(accessor) THEN EmptyBag
  ELSE IF accessor \notin inf THEN EmptyBag
  ELSE lint_accessees(inf, accessor, fwd[accessor], 1)

report ==
  /\ pc = "report"
  /\ \E accessor \in todo :
       /\ diags' = diags (+) lint_accessor(forward, infallible, accessor)
       /\ todo' = todo \ {accessor}
  /\ UNCHANGED <<access, forward, backward, visited, infallible, work_queue, pc>>

end_report ==
  /\ pc = "report"
  /\ todo = {}
  /\ pc' = "done"
  /\ UNCHANGED <<access, forward, backward, visited, infallible, work_queue, diags, todo>>

(***************************************************************************)
(* Specifications.                                                         *)
(***************************************************************************)
\* the access map of a program whose functions' call sites all carry a span
Build == iter_accesses(FALSE)

\* the access map of a program whose functions have const-evaluated
\* accessees as well
BuildAny == iter_accesses(TRUE)

Next ==
  \/ Build
  \/ end_build
  \/ classify
  \/ end_classify
  \/ seed
  \/ end_seed
  \/ propagate
  \/ end_propagate
  \/ report
  \/ end_report

Spec == Init /\ [][Next]_vars

\* check_crate runs on: the loop of lines 121-137 takes its next iteration
\* and leaves when the queue is empty
SpecFair == Spec /\ WF_vars(propagate) /\ WF_vars(end_propagate)

\* graph building alone, over the larger set of access maps
NextBuild == BuildAny

SpecBuild == Init /\ [][NextBuild]_vars

\* A program of three items with an access record (the generic local
\* function, the local static, the generic function of the core crate)
\* that call each other and the function of the alloc crate; every call
\* site carries its span.  Its access map holds up to MaxItems + 3 items.
ReportAccessors == {MonoItemOf(i) : i \in {"main", "TABLE", "helper"}}
ReportAccessees == ReportAccessors \cup {MonoItemOf("leaf")}
MaxReportItems == MaxItems + 3

RECURSIVE ReportLists(_, _)
ReportLists(acc, n) ==
  IF n = 0 THEN {<<>>}
  ELSE LET sp == IF acc.kind = "Static" THEN DUMMY_SP ELSE call_span(acc.id, n)
       IN { Append(s, [node |-> m, span |-> sp]) :
              s \in ReportLists(acc, n - 1), m \in ReportAccessees }

ReportEntries ==
  [accessor \in ReportAccessors, n \in 0..MaxAccessees |-> ReportLists(accessor, n)]

\* iter_accesses on the access map of that program
BuildReport ==
  /\ pc = "build"
  /\ \E accessor \in ReportAccessors, n \in 0..MaxAccessees :
       /\ instance_of(accessor) \notin DOMAIN forward
       /\ GraphSize(forward) + 1 + n <= MaxReportItems
       /\ \E accessees \in ReportEntries[accessor, n] :
            LET r == access_closure(forward, backward, accessor, accessees)
            IN /\ forward' = r.forward
               /\ backward' = r.backward
  /\ UNCHANGED <<access, visited, infallible, work_queue, diags, todo, pc>>

NextReport ==
  \/ BuildReport
  \/ end_build
  \/ classify
  \/ end_classify
  \/ seed
  \/ end_seed
  \/ propagate
  \/ end_propagate
  \/ report
  \/ end_report

SpecReport == Init /\ [][NextReport]_vars

\* the closure as a function of its arguments: one call, on any accessor and
\* any accessee list of the access map
InitClosure ==
  /\ \E accessor \in MonoItems, n \in 0..MaxAccessees :
       \E accessees \in AccessMapEntries[accessor, TRUE, n] :
          access = [accessor |-> accessor, accessees |-> accessees, returned |-> FALSE]
  /\ forward = EmptyMap
  /\ backward = EmptyMap
  /\ visited = {}
  /\ infallible = {}
  /\ work_queue = <<>>
  /\ diags = EmptyBag
  /\ todo = {}
  /\ pc = "build"

NextClosure == call_closure

SpecClosure == InitClosure /\ [][NextClosure]_vars

(***************************************************************************)
(* Properties.                                                             *)
(***************************************************************************)
\* key has an edge to node with this span in map
Occurs(map, key, node, span) ==
  /\ key \in DOMAIN map
  /\ \E k \in 1..Len(map[key]) : map[key][k] = Spanned(node, span)

\* C1 (SpecBuild): every edge occurrence a -> b with span s of forward has
\* an occurrence from b back to a with the same span s in backward, and the
\* other way round, and the two maps hold the same number of edge
\* occurrences; abandoned accessors and synthesized spans included.
C1_Transpose ==
  /\ \A a \in DOMAIN forward : \A k \in 1..Len(forward[a]) :
       Occurs(backward, forward[a][k].node, a, forward[a][k].span)
  /\ \A b \in DOMAIN backward : \A k \in 1..Len(backward[b]) :
       Occurs(forward, backward[b][k].node, b, backward[b][k].span)
  /\ EdgeCount(forward) = EdgeCount(backward)

\* a graph with a synthesized span, a call-site span and an accessee that
\* has two accessors
C1_Witness ==
  /\ \E a \in DOMAIN forward : \E k \in 1..Len(forward[a]) :
       forward[a][k].span = def_span(a)
  /\ \E a \in DOMAIN forward : \E k \in 1..Len(forward[a]) :
       forward[a][k].span = call_span(a, k)
  /\ \E b \in DOMAIN backward :
       Cardinality(nodes_of(backward[b])) >= 2

\* the accessee list holds an item that is neither a function nor a static
has_non_callable(accessees) ==
  \E k \in 1..Len(accessees) : instance_of(accessees[k].node) = NoInstance

\* the position of the first such item
first_non_callable(accessees) ==
  CHOOSE k \in 1..Len(accessees) :
    /\ instance_of(accessees[k].node) = NoInstance
    /\ \A j \in 1..(k - 1) : instance_of(accessees[j].node) # NoInstance

\* the closure call under scrutiny has returned, was made for an accessor
\* that is a function or a static, and its list holds an offending accessee
AbandonedCall ==
  /\ access.returned
  /\ instance_of(access.accessor) # NoInstance
  /\ has_non_callable(access.accessees)

\* C9 as stated (SpecClosure): an accessor whose accessee list holds an
\* accessee that is neither a function nor a static contributes no edge to
\* forward and none to backward.
C9_NoEdgesAtAll ==
  AbandonedCall =>
    /\ get_or_empty(forward, instance_of(access.accessor)) = <<>>
    /\ EdgeCount(backward) = 0

\* C9 amended (SpecClosure): such an accessor contributes exactly the edges
\* of the accessees listed before the first offending one, in order and with
\* their spans, and none for the offending accessee or any one after it.
C9_Truncated ==
  AbandonedCall =>
    LET a == instance_of(access.accessor)
        n == first_non_callable(access.accessees) - 1
        span(j) == IF is_dummy(access.accessees[j].span)
                     THEN def_span(a) ELSE access.accessees[j].span
        node(j) == instance_of(access.accessees[j].node)
    IN /\ a \in DOMAIN forward
       /\ forward[a] = [j \in 1..n |-> Spanned(node(j), span(j))]
       /\ EdgeCount(backward) = n
       /\ \A j \in 1..n : Occurs(backward, node(j), a, span(j))

\* a call abandoned at its second accessee, after one edge was recorded
C9_Witness ==
  /\ AbandonedCall
  /\ first_non_callable(access.accessees) = 2
  /\ Len(forward[instance_of(access.accessor)]) = 1

\* the allocation primitives the allowlist is said to hold
AllowlistedPrimitives ==
  { <<"alloc", "alloc", "__rust_alloc">>,
    <<"alloc", "alloc", "__rust_alloc_zeroed">>,
    <<"alloc", "alloc", "__rust_realloc">>,
    <<"alloc", "alloc", "__rust_dealloc">>,
    <<"alloc", "string", "String", "try_reserve">>,
    <<"alloc", "string", "String", "try_reserve_exact">> }

\* the callees whose identity is on that allowlist
AllowlistedCallees ==
  {u \in DOMAIN backward : def_path_str(u) \in AllowlistedPrimitives}

\* the propagation loop has run to its end
PropagationFinished == pc \in {"report", "done"}

\* C2 as stated (Spec): when propagation has finished, every callee whose
\* identity is on the allowlist of allocation primitives is in the Taint Set.
C2_AllowlistedTainted ==
  PropagationFinished => AllowlistedCallees \subseteq infallible

\* C2 amended (Spec): once classification has finished, and so when
\* propagation has finished, every callee whose identity is on the allowlist
\* is in the Visited Set and is not in the Taint Set.
C2_AllowlistedNeverTainted ==
  /\ AllowlistedCallees \cap infallible = {}
  /\ pc \in {"seed", "propagate", "report", "done"} => AllowlistedCallees \subseteq visited

\* raw_alloc was called, was queued as a leaf of the alloc crate next to a
\* leaf that did get tainted, and the run has ended
C2_Witness ==
  /\ pc = "done"
  /\ "raw_alloc" \in AllowlistedCallees
  /\ "raw_alloc" \notin DOMAIN forward
  /\ original_crate_name("raw_alloc") = "alloc"
  /\ "leaf" \in infallible

\* the leaves of the alloc crate, which the loop of lines 105-118 queues
QueuedSeeds ==
  {u \in DOMAIN backward : u \notin DOMAIN forward /\ original_crate_name(u) = "alloc"}

\* the accessors of u
Callers(u) == nodes_of(get_or_empty(backward, u))

\* C3 (Spec): an iteration of the propagation loop that pops a local unit
\* and taints it pushes nothing; and a unit is in the Taint Set only if it
\* was a queued seed or is an accessor of a tainted external unit.
C3_BoundaryStop ==
  /\ [][ ( /\ pc = "propagate" /\ pc' = "propagate"
           /\ work_queue # <<>>
           /\ top(work_queue) \notin visited
           /\ is_local(top(work_queue)) )
         => ( /\ infallible' = infallible \cup {top(work_queue)}
              /\ work_queue' = popped(work_queue) ) ]_vars
  /\ [](\A u \in infallible :
          \/ u \in QueuedSeeds
          \/ \E w \in infallible : ~is_local(w) /\ u \in Callers(w))

\* a tainted local unit has an accessor, and that accessor is not tainted
C3_Witness ==
  /\ pc = "done"
  /\ \E l \in infallible :
       /\ is_local(l)
       /\ \E m \in Callers(l) : m \notin infallible /\ m \notin visited

\* C8 (Spec): the Taint Set is a subset of the Visited Set in every state,
\* and no step removes a unit from the Taint Set.
C8_TaintWithinVisited ==
  /\ [](infallible \subseteq visited)
  /\ [][infallible \subseteq infallible']_vars

\* propagation is under way with a tainted unit and a visited unit that is
\* not tainted
C8_Witness ==
  /\ pc = "propagate"
  /\ work_queue # <<>>
  /\ infallible # {}
  /\ visited \ infallible # {}

\* the callees whose identity contains the assume-fallible marker
MarkerCallees ==
  {x \in DOMAIN backward : contains(def_path_str(x), "assume_fallible")}

\* the units u has an edge to
Callees(u) == nodes_of(get_or_empty(forward, u))

\* the diagnostics emitted so far
Emitted == BagToSet(diags)

\* C4 as stated (Spec): neither a callee whose identity contains the marker
\* nor any accessor of it is the accessee of an emitted diagnostic.
C4_CallersNeverAccessee ==
  \A x \in MarkerCallees : \A d \in Emitted :
    d.accessee # x /\ d.accessee \notin Callers(x)

\* C4 amended (Spec): neither a callee whose identity contains the marker
\* nor any unit it has an edge to is the accessee of an emitted diagnostic.
C4_CalleesNeverAccessee ==
  \A x \in MarkerCallees : \A d \in Emitted :
    d.accessee # x /\ d.accessee \notin Callees(x)

\* the run has ended without a diagnostic for a program in which the marked
\* item and a local function both call a leaf of the alloc crate
C4_Witness ==
  /\ pc = "done"
  /\ \E x \in MarkerCallees : \E y \in Callees(x) :
       /\ y \in QueuedSeeds
       /\ y \notin AllowlistedCallees
       /\ \E l \in Callers(y) : is_local(l) /\ l # x
  /\ diags = EmptyBag

\* the number of diagnostics emitted for accessor a, accessee b and span s
RECURSIVE CountOf(_, _, _, _)
CountOf(ds, a, b, s) ==
  IF ds = {} THEN 0
  ELSE LET d == CHOOSE x \in ds : TRUE
       IN (IF d.accessor = a /\ d.accessee = b /\ d.span = s
             THEN CopiesIn(d, diags) ELSE 0)
          + CountOf(ds \ {d}, a, b, s)

\* the number of occurrences of the edge a -> b with span s in forward
Occurrences(a, b, s) ==
  Cardinality({k \in 1..Len(forward[a]) : forward[a][k] = Spanned(b, s)})

\* the condition of section 4.5 on an edge
Reportable(a, b) ==
  /\ is_local(a) /\ a \in infallible
  /\ ~is_local(b) /\ b \in infallible

\* C5 (Spec): when the run has ended, an edge occurrence of forward has a
\* diagnostic exactly if its accessor is local and tainted and its accessee
\* is external and tainted, with one diagnostic for every such occurrence,
\* at the span of the edge; no other diagnostic is emitted, so none has an
\* external accessor.
C5_ReportingCondition ==
  pc = "done" =>
    /\ \A a \in DOMAIN forward : \A k \in 1..Len(forward[a]) :
         LET e == forward[a][k]
         IN CountOf(Emitted, a, e.node, e.span) =
              IF Reportable(a, e.node) THEN Occurrences(a, e.node, e.span) ELSE 0
    /\ \A d \in Emitted :
         /\ Occurs(forward, d.accessor, d.accessee, d.span)
         /\ is_local(d.accessor)

\* the run has ended with two diagnostics for one repeated edge and with an
\* edge between tainted units that is not reported
C5_Witness ==
  /\ pc = "done"
  /\ \E d \in Emitted : CountOf(Emitted, d.accessor, d.accessee, d.span) = 2
  /\ \E a \in DOMAIN forward : \E k \in 1..Len(forward[a]) :
       /\ {a, forward[a][k].node} \subseteq infallible
       /\ ~Reportable(a, forward[a][k].node)

\* the graph is main -> wrapper -> raw_alloc: m, w and r are three units,
\* the only edges are one from m to w and one from w to r, and the identity
\* of r is on the allowlist
DirectCall(m, w, r) ==
  /\ m # w /\ w # r /\ m # r
  /\ {m, w} \subseteq DOMAIN forward
  /\ EdgeCount(forward) = 2
  /\ Len(forward[m]) = 1 /\ forward[m][1].node = w
  /\ Len(forward[w]) = 1 /\ forward[w][1].node = r
  /\ def_path_str(r) \in AllowlistedPrimitives

\* C10 as stated (Spec): in that graph raw_alloc and wrapper are tainted,
\* and there is exactly one diagnostic, for the edge wrapper -> raw_alloc,
\* when wrapper is local and raw_alloc external, and none when both are
\* external.
C10_DirectCallReported ==
  pc = "done" =>
    \A m, w, r \in Instances :
      DirectCall(m, w, r) =>
        /\ {w, r} \subseteq infallible
        /\ (is_local(w) /\ ~is_local(r)) =>
             diags = SetToBag({lint(w, forward[w][1])})
        /\ (~is_local(w) /\ ~is_local(r)) => diags = EmptyBag

\* C10 amended (Spec): in that graph neither raw_alloc nor wrapper is
\* tainted, raw_alloc is in the Visited Set, and no diagnostic is emitted,
\* whether wrapper is local or external.
C10_DirectCallApproved ==
  pc = "done" =>
    \A m, w, r \in Instances :
      DirectCall(m, w, r) =>
        /\ w \notin infallible
        /\ r \notin infallible
        /\ r \in visited
        /\ diags = EmptyBag

\* the run has ended on such a graph with a local wrapper and an external
\* raw_alloc that was queued as a leaf of the alloc crate
C10_Witness ==
  /\ pc = "done"
  /\ \E m, w, r \in Instances :
       /\ DirectCall(m, w, r)
       /\ is_local(w) /\ ~is_local(r)
       /\ r \in QueuedSeeds

\* the units approved before propagation, read off the graph
PreApproved ==
  MarkerCallees \cup UNION {Callees(x) : x \in MarkerCallees} \cup AllowlistedCallees

\* the least set that holds T and, with an external unit, the accessors of
\* it that are not approved
RECURSIVE TaintFrom(_)
TaintFrom(T) ==
  LET more == {c \in UNION {Callers(w) : w \in {x \in T : ~is_local(x)}} :
                 c \notin PreApproved}
  IN IF more \subseteq T THEN T ELSE TaintFrom(T \cup more)

LeastTaint == TaintFrom(QueuedSeeds \ PreApproved)

\* C6 (Spec): when propagation has finished the Taint Set is the set the
\* graph and the approved units determine, in whatever order the seeds were
\* queued and the work items popped.
C6_OrderInsensitive ==
  PropagationFinished => infallible = LeastTaint

\* the run has ended for a graph with two queued seeds and a tainted unit
\* that has two tainted accessors
C6_Witness ==
  /\ pc = "done"
  /\ Cardinality(QueuedSeeds) >= 2
  /\ \E w \in infallible : Cardinality(Callers(w) \cap infallible) >= 2

\* the units not yet visited
Unvisited == Cardinality(Instances \ visited)

\* C7 (SpecFair): the propagation loop, once entered, reaches its end; every
\* iteration either visits a new unit or shortens the queue without
\* visiting one; and an iteration expands only a unit it adds to the
\* Visited Set, from which nothing is removed, so no unit is added or
\* expanded twice.
C7_Termination ==
  /\ (pc = "propagate") ~> (pc = "report")
  /\ [][ (pc = "propagate" /\ pc' = "propagate") =>
           /\ visited \subseteq visited'
           /\ \/ Unvisited' < Unvisited
              \/ Unvisited' = Unvisited /\ Len(work_queue') < Len(work_queue)
           /\ work_queue' # popped(work_queue) =>
                top(work_queue) \in visited' \ visited ]_vars

\* propagation has ended on a graph with a call cycle through a tainted
\* external unit, which was pushed by its callee, by itself and not expanded
\* a second time, and which has a tainted accessor besides
C7_Witness ==
  /\ pc = "report"
  /\ \E w \in infallible :
       /\ ~is_local(w)
       /\ w \in Callers(w)
       /\ \E a \in Callers(w) : a # w /\ a \in infallible

\* the units reachable from the units of S along the edges of forward
RECURSIVE ReachableFrom(_)
ReachableFrom(S) ==
  LET more == UNION {Callees(u) : u \in S}
  IN IF more \subseteq S THEN S ELSE ReachableFrom(S \cup more)

\* no queued seed is reachable from u
ReachesNoSeed(u) == ReachableFrom({u}) \cap QueuedSeeds = {}

\* C11 (Spec): a unit from which no queued seed is reachable along the edges
\* of forward is never in the Taint Set; so the two units of a cycle
\* a -> b -> a that reaches no seed are outside it when the run has ended.
C11_NoTaintWithoutSeed ==
  \A u \in Instances : ReachesNoSeed(u) => u \notin infallible

\* the run has ended on a graph with a cycle a -> b -> a that reaches no seed
C11_Witness ==
  /\ pc = "done"
  /\ \E a, b \in Instances :
       /\ a # b
       /\ b \in Callees(a) /\ a \in Callees(b)
       /\ ReachesNoSeed(a) /\ ReachesNoSeed(b)
       /\ {a, b} \cap infallible = {}

\* C12 (Spec): no diagnostic is emitted for an edge into a unit whose
\* identity contains the assume_fallible marker, whatever that unit calls.
C12_MarkerEdgeNeverReported ==
  \A d \in Emitted : ~contains(def_path_str(d.accessee), "assume_fallible")

\* the run has ended; a tainted local unit has an edge into an external
\* marked unit that has callees of its own, and diagnostics were emitted
C12_Witness ==
  /\ pc = "done"
  /\ Emitted # {}
  /\ \E caller \in Instances, m \in MarkerCallees :
       /\ m \in Callees(caller)
       /\ is_local(caller) /\ caller \in infallible
       /\ ~is_local(m)
       /\ Callees(m) # {}

\* the external units that are callees and have no entry in forward
NonCompositeExternal ==
  {u \in DOMAIN backward : ~is_local(u) /\ u \notin DOMAIN forward}

\* the units on the worklist
Queued == {work_queue[k] : k \in 1..Len(work_queue)}

\* the loop of lines 105-118 has handled every key of backward
SeedingFinished == pc = "seed" /\ todo = {}

\* C13 as stated (Spec): when seeding has finished, every external callee
\* without an entry in forward is on the worklist.
C13_EveryExternalLeafQueued ==
  SeedingFinished => NonCompositeExternal \subseteq Queued

\* C13 amended (Spec): when seeding has finished, the units on the worklist
\* are the callees without an entry in forward that originate from the
\* alloc crate; an external leaf of another crate is not queued.
C13_AllocLeavesQueued ==
  SeedingFinished =>
    Queued = {u \in DOMAIN backward :
                u \notin DOMAIN forward /\ original_crate_name(u) = "alloc"}

\* seeding has finished; an external leaf of the alloc crate is queued and
\* an external leaf of another crate is not
C13_Witness ==
  /\ SeedingFinished
  /\ \E u \in NonCompositeExternal :
       original_crate_name(u) = "alloc" /\ u \in Queued
  /\ \E u \in NonCompositeExternal :
       original_crate_name(u) # "alloc" /\ u \notin Queued

\* C14 as stated (Spec): when propagation has finished, every queued seed is
\* in the Taint Set.
C14_EverySeedTainted ==
  PropagationFinished => QueuedSeeds \subseteq infallible

\* C14 amended (Spec): when propagation has finished, the queued seeds in
\* the Taint Set are exactly the ones classification did not pre-approve.
C14_UnapprovedSeedsTainted ==
  PropagationFinished => QueuedSeeds \cap infallible = QueuedSeeds \ PreApproved

\* propagation has finished with one queued seed tainted and another one,
\* pre-approved by classification, not tainted
C14_Witness ==
  /\ PropagationFinished
  /\ \E u \in QueuedSeeds : u \in infallible
  /\ \E u \in QueuedSeeds : u \in PreApproved /\ u \notin infallible

\* u is the accessor of an edge of the graph
HasOutgoingEdge(u) ==
  \/ get_or_empty(forward, u) # <<>>
  \/ \E v \in DOMAIN backward : u \in Callers(v)

\* the callees that originate from the alloc crate
AllocCallees == {u \in DOMAIN backward : original_crate_name(u) = "alloc"}

\* C15 as stated (Spec): once the graph is built, a unit is absent from
\* forward exactly when it has no outgoing edge; when seeding has finished
\* a callee of the alloc crate is queued exactly when it has no outgoing
\* edge.
C15_AbsentIffNoEdges ==
  /\ pc # "build" =>
       \A u \in Instances : u \notin DOMAIN forward <=> ~HasOutgoingEdge(u)
  /\ SeedingFinished =>
       \A u \in AllocCallees : u \in Queued <=> ~HasOutgoingEdge(u)

\* C15 amended (Spec): once the graph is built, a unit absent from forward
\* has no outgoing edge (a unit with an entry may have none either); when
\* seeding has finished a callee of the alloc crate is queued exactly when
\* it is absent from forward.
C15_AbsentImpliesNoEdges ==
  /\ pc # "build" =>
       \A u \in Instances : u \notin DOMAIN forward => ~HasOutgoingEdge(u)
  /\ SeedingFinished =>
       \A u \in AllocCallees : u \in Queued <=> u \notin DOMAIN forward

\* seeding has finished; one callee of the alloc crate is absent from
\* forward and queued, another has an entry without edges and is not queued
C15_Witness ==
  /\ SeedingFinished
  /\ \E u \in AllocCallees : u \notin DOMAIN forward /\ u \in Queued
  /\ \E u \in AllocCallees :
       u \in DOMAIN forward /\ ~HasOutgoingEdge(u) /\ u \notin Queued

\* C19 (Spec): the Visited Set that classification leaves is the set of the
\* marked callees, their direct callees and the allowlisted callees; no such
\* unit is in the Taint Set in any state; and an iteration of the
\* propagation loop that pops such a unit only pops it: nothing is pushed
\* and nothing is tainted.
C19_PreApprovedNeverTainted ==
  /\ [](pc = "seed" => visited = PreApproved)
  /\ [](PreApproved \cap infallible = {})
  /\ [][ ( /\ pc = "propagate" /\ pc' = "propagate"
           /\ work_queue # <<>>
           /\ top(work_queue) \in PreApproved )
         => ( /\ work_queue' = popped(work_queue)
              /\ infallible' = infallible ) ]_vars

\* propagation has finished; a pre-approved unit calls a tainted external
\* unit, so it was pushed and popped, and neither it nor any accessor of it
\* is tainted
C19_Witness ==
  /\ PropagationFinished
  /\ \E u \in PreApproved :
       /\ \E v \in Callees(u) : ~is_local(v) /\ v \in infallible
       /\ u \notin infallible
       /\ Callers(u) # {}
       /\ Callers(u) \cap infallible = {}

\* C20 (Spec): when the run has ended, every local unit in the Taint Set
\* that has an entry in forward is the accessor of a diagnostic whose
\* accessee is an external unit in the Taint Set.
C20_TaintedLocalReported ==
  pc = "done" =>
    \A u \in infallible :
      (is_local(u) /\ u \in DOMAIN forward) =>
        \E d \in Emitted :
          /\ d.accessor = u
          /\ ~is_local(d.accessee)
          /\ d.accessee \in infallible

\* the run has ended; a tainted local unit whose first edge is not reported
\* is the accessor of a diagnostic for a later edge
C20_Witness ==
  /\ pc = "done"
  /\ \E u \in infallible :
       /\ is_local(u) /\ u \in DOMAIN forward
       /\ Len(forward[u]) >= 2
       /\ ~is_reported(infallible, forward[u][1])
       /\ \E d \in Emitted : d.accessor = u

\* the units a sequence of span notes names
note_nodes(notes) == {notes[k].node : k \in 1..Len(notes)}

\* the units of the graph
Units == DOMAIN forward \cup DOMAIN backward

\* C16 (SpecReport): within one diagnostic the units named by the "called
\* from" notes and the "calls into" notes are pairwise distinct, none of
\* them is the diagnostic's accessor or accessee, and there are at most
\* (number of units - 2) notes; this on every graph, cyclic or not.
C16_NotesDistinct ==
  \A d \in Emitted :
    LET named == note_nodes(d.callers) \cup note_nodes(d.callees)
    IN /\ Cardinality(named) = Len(d.callers) + Len(d.callees)
       /\ named \cap {d.accessor, d.accessee} = {}
       /\ Len(d.callers) + Len(d.callees) <= Cardinality(Units) - 2

\* a diagnostic with notes of both walks, on a graph where the unit the
\* first walk named is a tainted accessee of the diagnostic's accessee
C16_Witness ==
  \E d \in Emitted :
    /\ d.callers # <<>> /\ d.callees # <<>>
    /\ d.callers[1].node \in Callees(d.accessee) \cap infallible

\* the unit the k-th note of a walk starts from, and the units the
\* diagnostic has visited before that note: start is where the walk starts,
\* before the units visited before the walk
note_from(start, notes, k) == IF k = 1 THEN start ELSE notes[k - 1].node
visited_before(before, notes, k) == before \cup {notes[j].node : j \in 1..(k - 1)}

\* the unit a walk ends at
last_of(start, notes) == note_from(start, notes, Len(notes) + 1)

\* the visited set of diagnostic d when its "calls into" walk starts
visited_by_callers(d) == {d.accessor, d.accessee} \cup note_nodes(d.callers)

\* C17 as stated (SpecReport): for every emitted diagnostic each "calls
\* into" note is the first stored edge of forward, from the unit the walk
\* stands at, whose target is tainted and not yet visited in this
\* diagnostic, and the unit the walk ends at is a seed: a tainted unit with
\* no entry in forward.
C17_ChainEndsAtSeed ==
  \A d \in Emitted :
    /\ \A k \in 1..Len(d.callees) :
         LET list == get_or_empty(forward, note_from(d.accessee, d.callees, k))
             vis  == visited_before(visited_by_callers(d), d.callees, k)
         IN \E i \in 1..Len(list) :
              /\ list[i] = d.callees[k]
              /\ list[i].node \in infallible /\ list[i].node \notin vis
              /\ \A j \in 1..(i - 1) :
                   list[j].node \notin infallible \/ list[j].node \in vis
    /\ LET last == last_of(d.accessee, d.callees)
       IN last \in infallible /\ last \notin DOMAIN forward

\* C18 (SpecReport): for every emitted diagnostic the "called from" walk
\* starts at the accessor; each note is the first stored edge of backward,
\* into the unit the walk stands at, whose source is not yet visited in this
\* diagnostic, and it is taken only from a generic unit; the walk ends at a
\* unit that is not generic or has no unvisited incoming edge, so it is
\* empty for an accessor that is not generic; and the message carries the
\* monomorphization clause exactly when the accessor is generic.
C18_CallerChain ==
  \A d \in Emitted :
    /\ d.generic_note <=> tcx[d.accessor].generic
    /\ ~tcx[d.accessor].generic => d.callers = <<>>
    /\ \A k \in 1..Len(d.callers) :
         LET from == note_from(d.accessor, d.callers, k)
             list == get_or_empty(backward, from)
             vis  == visited_before({d.accessor, d.accessee}, d.callers, k)
         IN /\ tcx[from].generic
            /\ \E i \in 1..Len(list) :
                 /\ list[i] = d.callers[k]
                 /\ list[i].node \notin vis
                 /\ \A j \in 1..(i - 1) : list[j].node \in vis
    /\ LET last == last_of(d.accessor, d.callers)
       IN \/ ~tcx[last].generic
          \/ Callers(last) \subseteq visited_by_callers(d)

\* a diagnostic of a generic accessor with two unvisited accessors of its
\* own; its walk has ended at a unit that is not generic although that unit
\* has an unvisited accessor
C18_Witness ==
  \E d \in Emitted :
    /\ d.generic_note
    /\ d.callers # <<>>
    /\ Cardinality(Callers(d.accessor) \ {d.accessor, d.accessee}) >= 2
    /\ LET last == last_of(d.accessor, d.callers)
       IN /\ ~tcx[last].generic
          /\ ~(Callers(last) \subseteq visited_by_callers(d))
====
